---- MODULE Spec2Model ----
(***************************************************************************)
(* Onset, engine/word.py: a Word is an ordered list of Segments; a rule is *)
(* a dict with the keys conditions and applies and the optional keys       *)
(* first, last, before and after.  The module models index_applicable,     *)
(* applicable and apply_rule on Python lists (0-based positions, negative  *)
(* positions wrapping, positions past the end raising IndexError).         *)
(* The Segment class (segment.py) is not in the source tree; Segment,      *)
(* MeetsConditions and Combine follow its documented behaviour.            *)
(***************************************************************************)
EXTENDS Integers, Sequences, FiniteSets, TLC

VARIABLES segments, rule, op, index, ret, result, reads, matched, raised

vars == <<segments, rule, op, index, ret, result, reads, matched, raised>>

\* Longest Word the model constructs.
MaxLen == 3

\* Feature labels of the modelled inventory, and the deletion sentinel.
Features == {"voiced"}
Deletion == "deletion"
BundleKeys == {"positive", "negative", "zero"}

--------------------------------------------------------------------------
(* Segment: a ternary feature bundle.                                      *)

Segment(positive, negative, zero) ==
    [positive |-> positive, negative |-> negative, zero |-> zero]

\* dict.get(key, []) on a bundle-shaped dict; lists are kept as sets.
Get(d, key) == IF key \in DOMAIN d THEN d[key] ELSE {}

MeetsConditions(s, conditions) ==
    /\ Get(conditions, "positive") \subseteq s.positive
    /\ Get(conditions, "negative") \subseteq s.negative
    /\ Get(conditions, "zero") \subseteq s.zero

Mentioned(t) == t.positive \cup t.negative \cup t.zero

\* s + t: t's classification overrides s's for every label t mentions.
Combine(s, t) ==
    Segment((s.positive \ Mentioned(t)) \cup t.positive,
            (s.negative \ Mentioned(t)) \cup t.negative,
            (s.zero \ Mentioned(t)) \cup t.zero)

PairwiseDisjoint(s) ==
    /\ s.positive \cap s.negative = {}
    /\ s.positive \cap s.zero = {}
    /\ s.negative \cap s.zero = {}

--------------------------------------------------------------------------
(* Word: Python list access, __key and __eq__.                             *)

\* self.segments[p] is defined for -len <= p < len; otherwise IndexError.
PyInRange(segs, p) == p >= -Len(segs) /\ p < Len(segs)

PyIndex(segs, p) == segs[IF p < 0 THEN Len(segs) + p + 1 ELSE p + 1]

Key(segs) ==
    [k \in 1..Len(segs) |-> <<segs[k].positive, segs[k].negative, segs[k].zero>>]

WordEq(a, b) == Key(a) = Key(b)

--------------------------------------------------------------------------
(* index_applicable: each check either lets the call go on or ends it      *)
(* (return False, or an IndexError); reads are the positions of            *)
(* self.segments the check subscripts.                                     *)

Outcome(stop, rd, exc) == [stop |-> stop, reads |-> rd, raised |-> exc]

CheckConditions(segs, i, r) ==
    IF ~PyInRange(segs, i)
    THEN Outcome(TRUE, {i}, TRUE)
    ELSE Outcome(~MeetsConditions(PyIndex(segs, i), r["conditions"]), {i}, FALSE)

\* Variant: first compared against position 1 (1-based counting).
CheckFirstOneBased(segs, i, r) ==
    Outcome("first" \in DOMAIN r /\ i # 1, {}, FALSE)

CheckFirst(segs, i, r) ==
    Outcome("first" \in DOMAIN r /\ i # 0, {}, FALSE)

CheckLast(segs, i, r) ==
    Outcome("last" \in DOMAIN r /\ i # Len(segs) - 1, {}, FALSE)

\* Variant: before without the index == 0 guard (position -1 wraps).
CheckBeforeNoGuard(segs, i, r) ==
    IF "before" \notin DOMAIN r THEN Outcome(FALSE, {}, FALSE)
    ELSE IF ~PyInRange(segs, i - 1) THEN Outcome(TRUE, {i - 1}, TRUE)
    ELSE Outcome(~MeetsConditions(PyIndex(segs, i - 1), r["before"]),
                 {i - 1}, FALSE)

CheckBefore(segs, i, r) ==
    IF "before" \notin DOMAIN r THEN Outcome(FALSE, {}, FALSE)
    ELSE IF i = 0 THEN Outcome(TRUE, {}, FALSE)
    ELSE IF ~PyInRange(segs, i - 1) THEN Outcome(TRUE, {i - 1}, TRUE)
    ELSE Outcome(~MeetsConditions(PyIndex(segs, i - 1), r["before"]),
                 {i - 1}, FALSE)

\* Variant: after without the last-index guard (position len raises).
CheckAfterNoGuard(segs, i, r) ==
    IF "after" \notin DOMAIN r THEN Outcome(FALSE, {}, FALSE)
    ELSE IF ~PyInRange(segs, i + 1) THEN Outcome(TRUE, {i + 1}, TRUE)
    ELSE Outcome(~MeetsConditions(PyIndex(segs, i + 1), r["after"]),
                 {i + 1}, FALSE)

CheckAfter(segs, i, r) ==
    IF "after" \notin DOMAIN r THEN Outcome(FALSE, {}, FALSE)
    ELSE IF i = Len(segs) - 1 THEN Outcome(TRUE, {}, FALSE)
    ELSE IF ~PyInRange(segs, i + 1) THEN Outcome(TRUE, {i + 1}, TRUE)
    ELSE Outcome(~MeetsConditions(PyIndex(segs, i + 1), r["after"]),
                 {i + 1}, FALSE)

\* The value a call returns (ret is meaningless when raised).
Returned(value, rd, exc) == [ret |-> value, reads |-> rd, raised |-> exc]

IndexApplicable(segs, i, r) ==
    LET c1 == CheckConditions(segs, i, r)
        c2 == CheckFirst(segs, i, r)
        c3 == CheckLast(segs, i, r)
        c4 == CheckBefore(segs, i, r)
        c5 == CheckAfter(segs, i, r)
    IN  IF c1.stop THEN Returned(FALSE, c1.reads, c1.raised)
        ELSE IF c2.stop THEN Returned(FALSE, c1.reads, FALSE)
        ELSE IF c3.stop THEN Returned(FALSE, c1.reads, FALSE)
        ELSE IF c4.stop THEN Returned(FALSE, c1.reads \cup c4.reads, c4.raised)
        ELSE IF c5.stop
             THEN Returned(FALSE, c1.reads \cup c4.reads \cup c5.reads, c5.raised)
        ELSE Returned(TRUE, c1.reads \cup c4.reads \cup c5.reads, FALSE)

--------------------------------------------------------------------------
(* applicable: any() over the generator stops at the first True.           *)

RECURSIVE AnyFrom(_, _, _, _)
AnyFrom(segs, r, i, n) ==
    IF i >= n THEN Returned(FALSE, {}, FALSE)
    ELSE LET here == IndexApplicable(segs, i, r)
         IN  IF here.raised \/ here.ret THEN here
             ELSE LET rest == AnyFrom(segs, r, i + 1, n)
                  IN  [rest EXCEPT !.reads = here.reads \cup @]

\* Variant: the scan starts at position 1.
ApplicableFromOne(segs, r) == AnyFrom(segs, r, 1, Len(segs))

Applicable(segs, r) == AnyFrom(segs, r, 0, Len(segs))

--------------------------------------------------------------------------
(* apply_rule: the state of the loop is self.segments, new_segments, and   *)
(* the bookkeeping of what the pass read and matched.                      *)

\* Variant: every label of applies also lands in positive.
RuleSegmentAllPositive(r) ==
    Segment(Get(r["applies"], "positive") \cup Get(r["applies"], "negative")
                \cup Get(r["applies"], "zero"),
            Get(r["applies"], "negative"),
            Get(r["applies"], "zero"))

RuleSegment(r) ==
    Segment(Get(r["applies"], "positive"),
            Get(r["applies"], "negative"),
            Get(r["applies"], "zero"))

\* Variant: deletion only when "deletion" is the sole positive label.
IsDeletionAlone(r) == Get(r["applies"], "positive") = {Deletion}

IsDeletion(r) == Deletion \in Get(r["applies"], "positive")

LoopStart(segs) ==
    [segments |-> segs, new_segments |-> <<>>, reads |-> {}, matched |-> {},
     raised |-> FALSE]

\* Variant: the merged segment is also stored back into self.segments.
OnMatchInPlace(st, i, r) ==
    LET hit == [st EXCEPT !.matched = @ \cup {i}]
        new == Combine(PyIndex(st.segments, i), RuleSegment(r))
    IN  IF ~IsDeletion(r)
        THEN [hit EXCEPT !.segments[i + 1] = new,
                         !.new_segments = Append(@, new),
                         !.reads = @ \cup {i}]
        ELSE hit

\* Variant: rule_segment + segment, the operands swapped.
OnMatchSwapped(st, i, r) ==
    LET hit == [st EXCEPT !.matched = @ \cup {i}]
    IN  IF ~IsDeletion(r)
        THEN [hit EXCEPT !.new_segments =
                             Append(@, Combine(RuleSegment(r),
                                               PyIndex(st.segments, i))),
                         !.reads = @ \cup {i}]
        ELSE hit

OnMatch(st, i, r) ==
    LET hit == [st EXCEPT !.matched = @ \cup {i}]
    IN  IF ~IsDeletion(r)
        THEN [hit EXCEPT !.new_segments =
                             Append(@, Combine(PyIndex(st.segments, i),
                                               RuleSegment(r))),
                         !.reads = @ \cup {i}]
        ELSE hit

\* Variant: a deletion rule appends nothing for non-matching segments.
OnNoMatchDropped(st, i, r) ==
    IF IsDeletion(r) THEN st
    ELSE [st EXCEPT !.new_segments = Append(@, PyIndex(st.segments, i)),
                    !.reads = @ \cup {i}]

OnNoMatch(st, i, r) ==
    [st EXCEPT !.new_segments = Append(@, PyIndex(st.segments, i)),
               !.reads = @ \cup {i}]

LoopBody(st, i, r) ==
    LET a == IndexApplicable(st.segments, i, r)
        seen == [st EXCEPT !.reads = @ \cup a.reads, !.raised = a.raised]
    IN  IF a.raised THEN seen
        ELSE IF a.ret THEN OnMatch(seen, i, r)
        ELSE OnNoMatch(seen, i, r)

RECURSIVE ForLoop(_, _, _, _)
ForLoop(st, i, n, r) ==
    IF i >= n \/ st.raised THEN st
    ELSE ForLoop(LoopBody(st, i, r), i + 1, n, r)

ApplyRule(segs, r) == ForLoop(LoopStart(segs), 0, Len(segs), r)

--------------------------------------------------------------------------
(* Inputs: well-formed Segments over Features, Words of up to MaxLen       *)
(* Segments, and rules with every combination of the optional keys.        *)

Bundles(labels) ==
    {b \in [positive : SUBSET labels, negative : SUBSET labels,
            zero : SUBSET labels] : PairwiseDisjoint(b)}

\* A bundle as a rule file gives it: only the non-empty lists are keys.
Dict(b) == [k \in {key \in BundleKeys : b[key] # {}} |-> b[k]]

SegmentInputs == Bundles(Features)

Words == UNION {[1..n -> SegmentInputs] : n \in 0..MaxLen}

ConditionInputs == {Dict(b) : b \in Bundles(Features)}

\* Conditions on a neighbour: the features it must have.
ContextInputs ==
    {Dict(b) : b \in {c \in Bundles(Features) :
                          c.positive # {} /\ c.negative \cup c.zero = {}}}

\* applies: any classification of the features, with or without
\* "deletion" among the positive labels.
AppliesInputs ==
    {Dict(b) : b \in {c \in Bundles(Features \cup {Deletion}) :
                          Deletion \notin c.negative \cup c.zero}}

Absent == <<>>

Optional(key, values) == {Absent} \cup {key :> v : v \in values}

Rules ==
    {("conditions" :> c) @@ ("applies" :> a) @@ f @@ l @@ b @@ e :
        c \in ConditionInputs, a \in AppliesInputs,
        f \in Optional("first", {TRUE}), l \in Optional("last", {TRUE}),
        b \in Optional("before", ContextInputs),
        e \in Optional("after", ContextInputs)}

--------------------------------------------------------------------------
(* The state machine: a caller holding a Word and a rule calls one of the   *)
(* three methods, takes what it returns, and calls again, in any order;    *)
(* the Word apply_rule returns may become the receiver of the next calls.  *)

Init ==
    /\ segments \in Words
    /\ rule \in Rules
    /\ op = "new"
    /\ index = 0
    /\ ret = FALSE
    /\ result = <<>>
    /\ reads = {}
    /\ matched = {}
    /\ raised = FALSE

CallIndexApplicable ==
    /\ op = "new"
    /\ \E i \in 0..(Len(segments) - 1) :
         LET out == IndexApplicable(segments, i, rule)
         IN  /\ op' = "index_applicable"
             /\ index' = i
             /\ ret' = out.ret
             /\ reads' = out.reads
             /\ raised' = out.raised
             /\ matched' = IF out.ret THEN {i} ELSE {}
             /\ result' = <<>>
             /\ UNCHANGED <<segments, rule>>

CallApplicable ==
    /\ op = "new"
    /\ LET out == Applicable(segments, rule)
       IN  /\ op' = "applicable"
           /\ index' = 0
           /\ ret' = out.ret
           /\ reads' = out.reads
           /\ raised' = out.raised
           /\ matched' = {}
           /\ result' = <<>>
           /\ UNCHANGED <<segments, rule>>

CallApplyRule ==
    /\ op = "new"
    /\ LET out == ApplyRule(segments, rule)
       IN  /\ op' = "apply_rule"
           /\ index' = 0
           /\ ret' = FALSE
           /\ segments' = out.segments
           /\ result' = out.new_segments
           /\ reads' = out.reads
           /\ matched' = out.matched
           /\ raised' = out.raised
           /\ UNCHANGED rule

\* The caller is done with the returned value and keeps Word and rule.
Return ==
    /\ op # "new"
    /\ op' = "new"
    /\ index' = 0
    /\ ret' = FALSE
    /\ result' = <<>>
    /\ reads' = {}
    /\ matched' = {}
    /\ raised' = FALSE
    /\ UNCHANGED <<segments, rule>>

\* Word(new_segments): the returned Word is the receiver of later calls.
Rewritten ==
    /\ op = "apply_rule"
    /\ ~raised
    /\ segments' = result
    /\ op' = "new"
    /\ index' = 0
    /\ ret' = FALSE
    /\ result' = <<>>
    /\ reads' = {}
    /\ matched' = {}
    /\ raised' = FALSE
    /\ UNCHANGED rule

Next ==
    \/ CallIndexApplicable
    \/ CallApplicable
    \/ CallApplyRule
    \/ Return
    \/ Rewritten

Spec == Init /\ [][Next]_vars

--------------------------------------------------------------------------
(* Properties.  Positions are Python's 0-based ones; position p of a Word  *)
(* is element p + 1 of the sequence.                                       *)

Last == Len(segments) - 1

Positions == 0..Last

\* The positions of the receiver at which index_applicable returns True.
MatchSet == {i \in Positions : IndexApplicable(segments, i, rule).ret}

HasDeletionLabel == Deletion \in Get(rule["applies"], "positive")

\* All but position 0 of the receiver closes the result, untouched.
TailKept ==
    /\ Len(result) \in {Last, Last + 1} \cap Nat
    /\ \A p \in 1..Last : result[Len(result) - Last + p] = segments[p + 1]

\* All but the final position of the receiver opens the result, untouched.
FrontKept ==
    /\ Len(result) \in {Last, Last + 1} \cap Nat
    /\ \A p \in 0..(Last - 1) : result[p + 1] = segments[p + 1]

\* C1: a rule with the key first matches at position 0 only, a rule with
\* the key last at the final position only, so apply_rule changes or drops
\* at most that one segment of the Word and keeps every other one.
FirstLastExclusive ==
    /\ (op = "index_applicable" /\ ret /\ "first" \in DOMAIN rule) => index = 0
    /\ (op = "index_applicable" /\ ret /\ "last" \in DOMAIN rule) => index = Last
    /\ (op = "apply_rule" /\ "first" \in DOMAIN rule)
           => (matched \subseteq {0} /\ TailKept)
    /\ (op = "apply_rule" /\ "last" \in DOMAIN rule)
           => (matched \subseteq {Last} /\ FrontKept)

FirstLastWitness ==
    /\ op = "apply_rule"
    /\ "first" \in DOMAIN rule
    /\ Len(segments) = 3
    /\ matched = {0}
    /\ MeetsConditions(segments[2], rule["conditions"])
    /\ ~WordEq(result, segments)

\* C2: a rule with the key before never matches position 0 and matches a
\* later position only if the segment before it meets rule.before; a rule
\* with the key after never matches the final position and matches an
\* earlier one only if the segment after it meets rule.after; in a Word of
\* one segment such a rule matches nowhere.
ContextBoundary ==
    /\ (op = "index_applicable" /\ ret /\ "before" \in DOMAIN rule)
           => (index > 0 /\ MeetsConditions(segments[index], rule["before"]))
    /\ (op = "index_applicable" /\ ret /\ "after" \in DOMAIN rule)
           => (index < Last /\ MeetsConditions(segments[index + 2], rule["after"]))
    /\ (Len(segments) = 1 /\ {"before", "after"} \cap DOMAIN rule # {})
           => /\ ~ret
              /\ matched = {}
              /\ op = "apply_rule" => result = segments

ContextBoundaryWitness ==
    /\ op = "index_applicable"
    /\ ret
    /\ {"before", "after"} \subseteq DOMAIN rule
    /\ rule["before"] # <<>>
    /\ index = 1
    /\ Len(segments) = 3

\* C3: when index_applicable holds at no position (applicable is false),
\* also when the conditions are met only at positions that first, last,
\* before or after exclude, apply_rule returns a Word equal to the receiver.
NoMatchIdentity ==
    /\ (op = "apply_rule" /\ MatchSet = {})
           => (Len(result) = Len(segments) /\ WordEq(result, segments))
    /\ (op = "apply_rule" /\ ~Applicable(segments, rule).ret)
           => WordEq(result, segments)

NoMatchWitness ==
    /\ op = "apply_rule"
    /\ matched = {}
    /\ "last" \in DOMAIN rule
    /\ Len(segments) >= 2
    /\ MeetsConditions(segments[1], rule["conditions"])
    /\ HasDeletionLabel

\* The j-th smallest (j from 1) of a set of positions.
Nth(S, j) == CHOOSE p \in S : Cardinality({q \in S : q < p}) = j - 1

\* C4: a rule whose applies.positive holds "deletion", matching at k of the
\* n positions, yields the n - k non-matching segments, unmodified and in
\* order, whatever else applies lists; the empty Word when all match.
DeletionShrinks ==
    (op = "apply_rule" /\ HasDeletionLabel)
        => LET hits == MatchSet
               kept == Positions \ hits
           IN  /\ Len(result) = Len(segments) - Cardinality(hits)
               /\ \A j \in 1..Len(result) : result[j] = segments[Nth(kept, j) + 1]
               /\ hits = Positions => result = <<>>

DeletionWitness ==
    /\ op = "apply_rule"
    /\ HasDeletionLabel
    /\ Get(rule["applies"], "positive") # {Deletion}
    /\ Len(segments) = 3
    /\ matched = {1}
    /\ Len(result) = 2

ClassOf(bundle, f) ==
    IF f \in Get(bundle, "positive") THEN "positive"
    ELSE IF f \in Get(bundle, "negative") THEN "negative"
    ELSE IF f \in Get(bundle, "zero") THEN "zero"
    ELSE "unmentioned"

\* s with the classification of every label that applies mentions replaced
\* by the one applies gives it, and every other label as in s.
Overrides(new, s, applies) ==
    \A f \in Features \cup {Deletion} :
        ClassOf(new, f) = IF ClassOf(applies, f) # "unmentioned"
                          THEN ClassOf(applies, f)
                          ELSE ClassOf(s, f)

\* C5: a rule without "deletion" in applies.positive yields a Word of the
\* same length, holding at each matching position the segment with the
\* rule's classification overriding its own for the labels the rule
\* mentions, and at every other position the segment unchanged.
MergeAtMatches ==
    (op = "apply_rule" /\ ~HasDeletionLabel)
        => LET hits == MatchSet
           IN  /\ Len(result) = Len(segments)
               /\ \A i \in Positions :
                      IF i \in hits
                      THEN Overrides(result[i + 1], segments[i + 1],
                                     rule["applies"])
                      ELSE result[i + 1] = segments[i + 1]

MergeWitness ==
    /\ op = "apply_rule"
    /\ ~HasDeletionLabel
    /\ Len(segments) = 2
    /\ matched = {0}
    /\ segments[1].positive = {"voiced"}
    /\ result[1].negative = {"voiced"}
    /\ result[2] = segments[2]

\* C6: a call of index_applicable, applicable or apply_rule leaves the
\* receiver's segments and the rule as they were.
ReceiverUnchanged ==
    [][op' # "new" => (segments' = segments /\ rule' = rule)]_vars

ReceiverUnchangedWitness ==
    /\ op = "apply_rule"
    /\ Cardinality(matched) >= 2
    /\ Len(result) = Len(segments)
    /\ \A i \in matched : result[i + 1] # segments[i + 1]

\* C7: applicable returns true iff index_applicable does at some position;
\* it is false for the empty Word, and true whenever apply_rule returns a
\* Word that differs from the receiver.
ApplicableIffSomeIndex ==
    /\ op = "applicable" => (ret <=> MatchSet # {})
    /\ (op = "applicable" /\ segments = <<>>) => ~ret
    /\ (op = "apply_rule" /\ ~WordEq(result, segments))
           => Applicable(segments, rule).ret

ApplicableWitness ==
    /\ op = "applicable"
    /\ ret
    /\ MatchSet = {0}
    /\ Len(segments) >= 2

\* C8: with well-formed segments and a well-formed applies bundle, every
\* segment of the receiver and of the Word apply_rule returns has pairwise
\* disjoint positive, negative and zero sets, through any number of
\* rewritings.
DisjointnessPreserved ==
    /\ \A k \in DOMAIN segments : PairwiseDisjoint(segments[k])
    /\ \A k \in DOMAIN result : PairwiseDisjoint(result[k])
    /\ op = "new" =>
           \A k \in DOMAIN segments :
               PairwiseDisjoint(Combine(segments[k], RuleSegment(rule)))

DisjointnessWitness ==
    /\ op = "apply_rule"
    /\ ~HasDeletionLabel
    /\ \E i \in matched :
           /\ segments[i + 1].negative = {"voiced"}
           /\ result[i + 1].zero = {"voiced"}

\* C9: no call raises IndexError and every position of self.segments a
\* call subscripts lies in 0..len-1, for Words of any length, the empty
\* Word and the one-segment Word included.
ReadsInRange ==
    /\ ~raised
    /\ reads \subseteq Positions

ReadsInRangeWitness ==
    /\ op = "apply_rule"
    /\ {"before", "after"} \subseteq DOMAIN rule
    /\ Len(segments) = 3
    /\ reads = Positions
    /\ matched = {1}

\* C10: the positions apply_rule merges or deletes are exactly those at
\* which index_applicable holds on the unmodified receiver, whatever the
\* pass did at earlier positions.
SimultaneousApplication ==
    op = "apply_rule" => matched = MatchSet

SimultaneousWitness ==
    /\ op = "apply_rule"
    /\ ~HasDeletionLabel
    /\ "before" \in DOMAIN rule
    /\ \E i \in matched :
           /\ i - 1 \in matched
           /\ ~MeetsConditions(result[i], rule["before"])

====
